---- MODULE Spec2Model ----
(***************************************************************************)
(* Model of gha-remove-artifacts (src/index.js): a run-to-completion       *)
(* script that resolves its configuration, optionally lists the tagged     *)
(* commits, pages through the workflow runs of a branch, and for every     *)
(* surviving run lists its artifacts, filters them and deletes the rest.   *)
(*                                                                         *)
(* Time is counted in whole days.  Strings that the program parses are     *)
(* sequences of one-character strings; numbers are kept in tenths so that  *)
(* one fractional digit is exact; NaN and undefined are explicit.          *)
(***************************************************************************)
EXTENDS Integers, Sequences, FiniteSets, TLC

\* ------------------------------------------------------------------ bounds
MaxRuns == 2
PageSize == 1
MaxArtifacts == 2
MaxTicks == 1
Now0 == 20

\* ------------------------------------------------------- program constants
TooOldDays == 10

\* --------------------------------------------------------- JavaScript values
NaN == [nan |-> TRUE, v |-> 0]
Num(tenths) == [nan |-> FALSE, v |-> tenths]

Undefined == [def |-> FALSE, s |-> <<>>]
Str(chars) == [def |-> TRUE, s |-> chars]

Digits == {"0", "1", "2", "3", "4", "5", "6", "7", "8", "9"}
DigitVal(c) ==
    CASE c = "0" -> 0 [] c = "1" -> 1 [] c = "2" -> 2 [] c = "3" -> 3
      [] c = "4" -> 4 [] c = "5" -> 5 [] c = "6" -> 6 [] c = "7" -> 7
      [] c = "8" -> 8 [] c = "9" -> 9

RECURSIVE Trim(_)
Trim(s) ==
    IF s = <<>> THEN s
    ELSE IF Head(s) = " " THEN Trim(Tail(s))
    ELSE IF s[Len(s)] = " " THEN Trim(SubSeq(s, 1, Len(s) - 1))
    ELSE s

AllDigits(s) == \A i \in 1..Len(s) : s[i] \in Digits

RECURSIVE IntOf(_)
IntOf(s) == IF s = <<>> THEN 0 ELSE 10 * IntOf(SubSeq(s, 1, Len(s) - 1)) + DigitVal(s[Len(s)])

\* the unsigned decimal literal  digits [. digit]  |  . digit ; at most one
\* fractional digit is read exactly, which is all the inputs below carry
Unsigned(s) ==
    LET dots == {i \in 1..Len(s) : s[i] = "."} IN
    IF dots = {} THEN
        IF s # <<>> /\ AllDigits(s) THEN Num(10 * IntOf(s)) ELSE NaN
    ELSE IF Cardinality(dots) > 1 THEN NaN
    ELSE LET d == CHOOSE i \in dots : TRUE
             ip == SubSeq(s, 1, d - 1)
             fp == SubSeq(s, d + 1, Len(s))
         IN IF (ip = <<>> /\ fp = <<>>) \/ ~AllDigits(ip) \/ ~AllDigits(fp) \/ Len(fp) > 1
            THEN NaN
            ELSE Num(10 * IntOf(ip) + IntOf(fp))

\* Number(x) of JavaScript on a string or undefined
ToNumber(x) ==
    IF ~x.def THEN NaN
    ELSE LET t == Trim(x.s) IN
         IF t = <<>> THEN Num(0)
         ELSE IF Head(t) = "-" THEN
                  LET u == Unsigned(Tail(t)) IN IF u.nan THEN NaN ELSE Num(0 - u.v)
         ELSE IF Head(t) = "+" THEN Unsigned(Tail(t))
         ELSE Unsigned(t)

\* truthiness of a string-or-undefined and of a number
TruthyStr(x) == x.def /\ x.s # <<>>
TruthyNum(n) == ~n.nan /\ n.v # 0

\* String.prototype.split(" ")
RECURSIVE Split(_)
Split(s) ==
    LET sp == {i \in 1..Len(s) : s[i] = " "} IN
    IF sp = {} THEN << s >>
    ELSE LET i == CHOOSE j \in sp : \A k \in sp : j <= k
         IN << SubSeq(s, 1, i - 1) >> \o Split(SubSeq(s, i + 1, Len(s)))

\* array destructuring: the i-th element or undefined
Elem(arr, i) == IF i <= Len(arr) THEN Str(arr[i]) ELSE Undefined

\* Math.round on a number kept in tenths, sign stripped and restored (absRound)
AbsRound(tenths) ==
    IF tenths >= 0 THEN (tenths + 5) \div 10 ELSE 0 - ((0 - tenths + 5) \div 10)

\* ----------------------------------------------------------- configuration
\* the raw inputs a process can be started with
AgeInputs ==
    { Undefined,
      Str(<<"1", " ", "d", "a", "y", "s">>),
      Str(<<"1", "d">>) }
SkipTagsInputs ==
    { Undefined, Str(<<"t", "r", "u", "e">>) }
SkipRecentInputs ==
    { Str(<<>>), Str(<<"x">>), Str(<<"1">>), Str(<<"1", ".", "5">>) }

\* a wider choice of inputs for the configuration alone
MoreAgeInputs ==
    AgeInputs \cup { Str(<<>>), Str(<<"2", " ", "d">>), Str(<<"x", " ", "d">>),
                     Str(<<"1", " ", "z">>), Str(<<"d", " ", "1">>) }
MoreSkipTagsInputs ==
    SkipTagsInputs \cup { Str(<<>>), Str(<<"n", "o">>), Str(<<"f", "a", "l", "s", "e">>),
                          Str(<<"1">>), Str(<<"x">>) }
MoreSkipRecentInputs ==
    SkipRecentInputs \cup { Undefined, Str(<<"0">>), Str(<<"2">>), Str(<<"-", "1">>),
                            Str(<<"-", "1", ".", "5">>), Str(<<".", "5">>),
                            Str(<<"1", ".">>), Str(<<"+", "1">>), Str(<<" ", "1">>),
                            Str(<<"-">>), Str(<<".">>), Str(<<"1", "x">>),
                            Str(<<"1", ".", "2", ".", "3">>), Str(<<" ">>) }

Threw == [threw |-> TRUE, val |-> Undefined]
Returned(x) == [threw |-> FALSE, val |-> x]

\* readInput: process.env[key] in the dev environment, else core.getInput,
\* which reads an unset input as "", throws on a required empty one and trims
readInput(dev, raw, isRequired) ==
    IF dev THEN Returned(raw)
    ELSE LET val == IF raw.def THEN raw.s ELSE <<>> IN
         IF isRequired /\ val = <<>> THEN Threw ELSE Returned(Str(Trim(val)))

\* yn(): a lenient boolean, undefined when the word is not recognised
YnTrue == { <<"y">>, <<"y", "e", "s">>, <<"t", "r", "u", "e">>, <<"1">>, <<"o", "n">> }
YnFalse == { <<"n">>, <<"n", "o">>, <<"f", "a", "l", "s", "e">>, <<"0">>, <<"o", "f", "f">> }
yn(x) ==
    IF ~x.def THEN "undefined"
    ELSE IF Trim(x.s) \in YnTrue THEN "true"
    ELSE IF Trim(x.s) \in YnFalse THEN "false"
    ELSE "undefined"

\* the whole days moment().subtract(age, units) goes back: the arguments are
\* swapped when the unit is numeric, a value that is no number or a unit that
\* is no day unit subtracts nothing
DayUnits == { <<"d">>, <<"d", "a", "y">>, <<"d", "a", "y", "s">> }
SubtractedDays(age, units) ==
    LET swap == units.def /\ ~ToNumber(units).nan
        val == IF swap THEN units ELSE age
        period == IF swap THEN age ELSE units
        n == ToNumber(val)
    IN IF n.nan \/ ~period.def \/ period.s \notin DayUnits THEN 0 ELSE AbsRound(n.v)

ConfigError == [ok |-> FALSE, maxAge |-> 0, skipTags |-> "undefined", skipRecent |-> NaN]

\* faulty variant: the Number.isNaN check left out
getConfigsUnchecked(dev, inputs, now) ==
    LET ageIn == readInput(dev, inputs.AGE, TRUE)
        parts == Split(ageIn.val.s)
        skipRecent == readInput(dev, inputs.SKIP_RECENT, FALSE).val
    IN IF ageIn.threw \/ ~ageIn.val.def THEN ConfigError
       ELSE [ok |-> TRUE,
             maxAge |-> now - SubtractedDays(Elem(parts, 1), Elem(parts, 2)),
             skipTags |-> yn(readInput(dev, inputs.SKIP_TAGS, FALSE).val),
             skipRecent |-> ToNumber(skipRecent)]

\* (age and units are bound as values, so that each is evaluated once)
getConfigs(dev, inputs, now) ==
    LET ageIn == readInput(dev, inputs.AGE, TRUE)
        parts == Split(ageIn.val.s)
        age == Elem(parts, 1)
        units == Elem(parts, 2)
        skipRecent == readInput(dev, inputs.SKIP_RECENT, FALSE).val
    IN IF ageIn.threw \/ ~ageIn.val.def THEN ConfigError
       ELSE IF TruthyStr(skipRecent) /\ ToNumber(skipRecent).nan THEN ConfigError
       ELSE [ok |-> TRUE,
             maxAge |-> now - (CHOOSE d \in { SubtractedDays(a, u)
                                               : a \in {age}, u \in {units} } : TRUE),
             skipTags |-> yn(readInput(dev, inputs.SKIP_TAGS, FALSE).val),
             skipRecent |-> ToNumber(skipRecent)]

\* ------------------------------------------------------------------- state
VARIABLES
    devEnv,                   \* NODE_ENV === "dev"
    inputs,                   \* the raw inputs AGE, SKIP_TAGS, SKIP_RECENT
    clock,                    \* the current day
    pc,                       \* where run() is: start, tags, runs, join, resolved, rejected
    failure,                  \* what core.setFailed was called for, or "none"
    configs,                  \* the result of getConfigs
    taggedCommits,            \* undefined, or the commits the tags point to
    pages,                    \* the pages of workflow runs received so far
    hasNextPage,              \* whether the last page received links to a next one
    pipeline,                 \* per run: absent, skipped_tag, skipped_old, listing, listed, failed
    artifacts,                \* per run: the artifacts its listing returned
    decision,                 \* per artifact: none, recent, kept, delete
    deletion,                 \* per artifact: none, pending, ok, failed, noop
    skippedArtifactsCounter,
    requests                  \* the requests issued so far, per kind and target

vars == << devEnv, inputs, clock, pc, failure, configs, taggedCommits, pages,
           hasNextPage, pipeline, artifacts, decision, deletion, skippedArtifactsCounter, requests >>

RunIds == 1..MaxRuns
CommitOf(r) == r
Commits == { CommitOf(r) : r \in RunIds }
Min(a, b) == IF a <= b THEN a ELSE b
\* the i-th artifact of run r; the repository holds MaxArtifacts at most
ArtifactId(r, i) == (r - 1) * MaxArtifacts + i
ArtifactIds == 1..(MaxRuns * MaxArtifacts)
RunTimes == (Now0 - TooOldDays - 1)..(Now0 - TooOldDays + 1)
ArtifactTimes == (Now0 - 2)..Now0

NoTags == [def |-> FALSE, set |-> {}]
NoConfigs == [ok |-> FALSE, maxAge |-> 0, skipTags |-> "undefined", skipRecent |-> NaN]

RECURSIVE Flatten(_)
Flatten(ps) == IF ps = <<>> THEN <<>> ELSE Head(ps) \o Flatten(Tail(ps))

workflowRuns == Flatten(pages)

RECURSIVE SumLen(_, _)
SumLen(f, n) == IF n = 0 THEN 0 ELSE Len(f[n]) + SumLen(f, n - 1)
ListedArtifacts == SumLen(artifacts, MaxRuns)

InitWith(ages, skipTags, skipRecents) ==
    /\ devEnv \in BOOLEAN
    /\ inputs \in [AGE : ages, SKIP_TAGS : skipTags, SKIP_RECENT : skipRecents]
    /\ clock = Now0
    /\ pc = "start"
    /\ failure = "none"
    /\ configs = NoConfigs
    /\ taggedCommits = NoTags
    /\ pages = <<>>
    /\ hasNextPage = FALSE
    /\ pipeline = [r \in RunIds |-> "absent"]
    /\ artifacts = [r \in RunIds |-> <<>>]
    /\ decision = [a \in ArtifactIds |-> "none"]
    /\ deletion = [a \in ArtifactIds |-> "none"]
    /\ skippedArtifactsCounter = 0
    /\ requests = [tags |-> 0, runs |-> 0,
                   artifacts |-> [r \in RunIds |-> 0],
                   deletes |-> [a \in ArtifactIds |-> 0]]

\* --------------------------------------------------------------- predicates
\* faulty variant: the look-back window taken one day too long
isTooOldOffByOne(workflowRun, now) == workflowRun.created_at < now - TooOldDays - 1

isTooOld(workflowRun, now) == workflowRun.created_at < now - TooOldDays

\* faulty variant: the tag test left out
skipTaggedWorkflowNever(cfg, tagged, workflowRun) == FALSE

skipTaggedWorkflow(cfg, tagged, workflowRun) ==
    cfg.skipTags = "true" /\ workflowRun.head_sha \in tagged.set

\* the workflow-run filter: why a run is left out, or "listing" when it is kept
RunFilter(cfg, tagged, workflowRun, now) ==
    IF skipTaggedWorkflow(cfg, tagged, workflowRun) THEN "skipped_tag"
    ELSE IF isTooOld(workflowRun, now) THEN "skipped_old"
    ELSE "listing"

\* faulty variant: the budget compared with >= , one artifact too many is skipped
skipRecentArtifactOffByOne(cfg, counter) ==
    TruthyNum(cfg.skipRecent) /\ cfg.skipRecent.v >= 10 * counter

\* faulty variant: the counter rule is applied when skipRecent is zero too
skipRecentArtifactAtZero(cfg, counter) ==
    ~cfg.skipRecent.nan /\ cfg.skipRecent.v >= 10 * counter

skipRecentArtifact(cfg, counter) ==
    TruthyNum(cfg.skipRecent) /\ cfg.skipRecent.v > 10 * counter

\* faulty variant: before-or-equal instead of before
filteredInclusive(cfg, artifact) == artifact.created_at <= cfg.maxAge

\* faulty variant: isAfter instead of isBefore
filteredAfter(cfg, artifact) == artifact.created_at > cfg.maxAge

filtered(cfg, artifact) == artifact.created_at < cfg.maxAge

\* faulty variant: the age check made before the recent-count check
RECURSIVE FilterArtifactsAgeFirst(_, _, _)
FilterArtifactsAgeFirst(cfg, arts, counter) ==
    IF arts = <<>> THEN [dec |-> <<>>, counter |-> counter]
    ELSE LET old == filtered(cfg, Head(arts))
             skip == old /\ skipRecentArtifact(cfg, counter)
             d == IF ~old THEN "kept" ELSE IF skip THEN "recent" ELSE "delete"
             rest == FilterArtifactsAgeFirst(cfg, Tail(arts),
                                             IF skip THEN counter + 1 ELSE counter)
         IN [dec |-> << d >> \o rest.dec, counter |-> rest.counter]

\* faulty variant: every listing counts its skipped artifacts from zero
FilterArtifactsOwnCounter(cfg, arts, counter) ==
    LET dec == [i \in 1..Len(arts) |->
                  IF skipRecentArtifact(cfg, i - 1) THEN "recent"
                  ELSE IF filtered(cfg, arts[i]) THEN "delete" ELSE "kept"]
    IN [dec |-> dec,
        counter |-> counter + Cardinality({ i \in 1..Len(arts) : dec[i] = "recent" })]

\* the artifact filter over one listing, in listing order, threading the counter
RECURSIVE FilterArtifacts(_, _, _)
FilterArtifacts(cfg, arts, counter) ==
    IF arts = <<>> THEN [dec |-> <<>>, counter |-> counter]
    ELSE LET skip == skipRecentArtifact(cfg, counter)
             d == IF skip THEN "recent"
                  ELSE IF filtered(cfg, Head(arts)) THEN "delete" ELSE "kept"
             rest == FilterArtifacts(cfg, Tail(arts), IF skip THEN counter + 1 ELSE counter)
         IN [dec |-> << d >> \o rest.dec, counter |-> rest.counter]

\* faulty variant: the dev environment is not looked at
StartDeleteAlways(dev) == "pending"

\* what the delete map starts for an artifact that passed the filter
StartDelete(dev) == IF dev THEN "noop" ELSE "pending"

\* faulty variant: the delete promises are not returned to the join
JoinSettledListingsOnly(pl, del) ==
    \A r \in RunIds : pl[r] \notin {"listing", "failed"}

\* Promise.all over the listings, then over the delete promises
JoinSettled(pl, del) ==
    /\ \A r \in RunIds : pl[r] \notin {"listing", "failed"}
    /\ \A a \in ArtifactIds : del[a] # "pending"

\* ------------------------------------------------------------------ actions
\* faulty variant: the tags are listed whatever skipTags says
FirstStageAlwaysTags(c) == IF ~c.ok THEN "rejected" ELSE "tags"

\* run() up to its first request: getConfigs, then the tag listing when
\* skipTags is set, else the first page of workflow runs
\* faulty variant: an error of getConfigs does not stop run()
FirstStageIgnoresError(c) == IF c.skipTags = "true" THEN "tags" ELSE "runs"

\* where run() goes once getConfigs has returned or thrown
FirstStage(c) ==
    IF ~c.ok THEN "rejected" ELSE IF c.skipTags = "true" THEN "tags" ELSE "runs"

Start ==
    /\ pc = "start"
    /\ LET c == getConfigs(devEnv, inputs, clock) IN
       /\ pc' = FirstStage(c)
       /\ configs' = IF c.ok THEN c ELSE configs
       /\ failure' = IF pc' = "rejected" THEN "config" ELSE failure
       /\ requests' = IF pc' = "tags" THEN [requests EXCEPT !.tags = @ + 1]
                      ELSE IF pc' = "runs" THEN [requests EXCEPT !.runs = @ + 1]
                      ELSE requests
    /\ UNCHANGED << devEnv, inputs, clock, taggedCommits, pages, hasNextPage, pipeline, artifacts,
                    decision, deletion, skippedArtifactsCounter >>

\* getTaggedCommits resolves; the first page of workflow runs is requested
TagsListed(tags) ==
    /\ pc = "tags"
    /\ taggedCommits' = [def |-> TRUE, set |-> tags]
    /\ pc' = "runs"
    /\ requests' = [requests EXCEPT !.runs = @ + 1]
    /\ UNCHANGED << devEnv, inputs, clock, failure, configs, pages, hasNextPage, pipeline, artifacts,
                    decision, deletion, skippedArtifactsCounter >>

\* faulty variant: the catch logs the error and does not throw it again
onTagsErrorSwallowed == "runs"

\* the catch around getTaggedCommits: the error is logged and thrown again
onTagsError == "rejected"

\* getTaggedCommits rejects
TagsFailed ==
    /\ pc = "tags"
    /\ pc' = onTagsError
    /\ failure' = IF pc' = "rejected" THEN "tags" ELSE failure
    /\ requests' = IF pc' = "runs" THEN [requests EXCEPT !.runs = @ + 1] ELSE requests
    /\ UNCHANGED << devEnv, inputs, clock, configs, taggedCommits, pages, hasNextPage, pipeline,
                    artifacts, decision, deletion, skippedArtifactsCounter >>

\* a page the platform can deliver next: newest first, ids in listing order,
\* every run on a commit of its own
PageChoices ==
    LET have == Len(workflowRuns)
        newest == IF have = 0 THEN Now0 ELSE workflowRuns[have].created_at
        sorted(ts) == \A i \in 1..Len(ts) :
                         ts[i] <= (IF i = 1 THEN newest ELSE ts[i - 1])
    IN { [i \in 1..Len(ts) |->
            [id |-> have + i, head_sha |-> CommitOf(have + i), created_at |-> ts[i]]]
         : ts \in { t \in UNION { [1..n -> RunTimes]
                                    : n \in 0..Min(PageSize, MaxRuns - have) } : sorted(t) } }

\* faulty variant: done() is never called
stopPaginationNever(page, now) == FALSE

\* the paginate callback: done() when the page holds a too old run
stopPagination(page, now) == \E i \in 1..Len(page) : isTooOld(page[i], now)

\* a page of workflow runs arrives and the next one is requested
RunsPageMore(page) ==
    /\ pc = "runs"
    /\ Len(page) = PageSize
    /\ Len(workflowRuns) + Len(page) < MaxRuns
    /\ ~stopPagination(page, clock)
    /\ pages' = Append(pages, page)
    /\ hasNextPage' = TRUE
    /\ requests' = [requests EXCEPT !.runs = @ + 1]
    /\ UNCHANGED << devEnv, inputs, clock, pc, failure, configs, taggedCommits, pipeline,
                    artifacts, decision, deletion, skippedArtifactsCounter >>

\* the last page arrives (no next page, or done() was called): the runs are
\* filtered and the artifact listing of every run kept is requested
RunsPageLast(page, hasNext) ==
    /\ pc = "runs"
    /\ hasNext => /\ Len(page) = PageSize
                  /\ Len(workflowRuns) + Len(page) < MaxRuns
                  /\ stopPagination(page, clock)
    /\ pages' = Append(pages, page)
    /\ hasNextPage' = hasNext
    /\ LET runs == Flatten(pages')
           pl == [r \in RunIds |->
                    IF r <= Len(runs)
                    THEN RunFilter(configs, taggedCommits, runs[r], clock)
                    ELSE "absent"]
       IN /\ pipeline' = pl
          /\ requests' = [requests EXCEPT
                             !.artifacts = [r \in RunIds |->
                                              IF pl[r] = "listing" THEN @[r] + 1 ELSE @[r]]]
          /\ pc' = IF JoinSettled(pl, deletion) THEN "resolved" ELSE "join"
    /\ UNCHANGED << devEnv, inputs, clock, failure, configs, taggedCommits, artifacts,
                    decision, deletion, skippedArtifactsCounter >>

\* the listing of workflow runs rejects
RunsFailed ==
    /\ pc = "runs"
    /\ pc' = "rejected"
    /\ failure' = "runs"
    /\ UNCHANGED << devEnv, inputs, clock, configs, taggedCommits, pages, hasNextPage, pipeline,
                    artifacts, decision, deletion, skippedArtifactsCounter, requests >>

\* faulty variant: reporting the failure ends the process
CancelledOnFailure(pcNow) == pcNow = "rejected"

\* whether the pipelines still in flight are abandoned: run().catch only calls
\* core.setFailed, nothing aborts a request or exits the process
Cancelled(pcNow) == FALSE

\* the listings the platform can return for run r
ArtifactChoices(r) ==
    { [i \in 1..Len(ts) |-> [id |-> ArtifactId(r, i), created_at |-> ts[i]]]
      : ts \in UNION { [1..n -> ArtifactTimes] : n \in 0..(MaxArtifacts - ListedArtifacts) } }

\* the artifacts of run r arrive: they are filtered and a delete is started
\* for each one that passed; the join resolves when nothing is outstanding
ArtifactsListed(r, arts) ==
    /\ pipeline[r] = "listing"
    /\ ~Cancelled(pc)
    /\ LET f == FilterArtifacts(configs, arts, skippedArtifactsCounter)
           idx(a) == CHOOSE i \in 1..Len(arts) : arts[i].id = a
           here == { arts[i].id : i \in 1..Len(arts) }
           del == [a \in ArtifactIds |->
                     IF a \in here /\ f.dec[idx(a)] = "delete"
                     THEN StartDelete(devEnv) ELSE deletion[a]]
           pl == [pipeline EXCEPT ![r] = "listed"]
       IN /\ artifacts' = [artifacts EXCEPT ![r] = arts]
          /\ decision' = [a \in ArtifactIds |->
                            IF a \in here THEN f.dec[idx(a)] ELSE decision[a]]
          /\ deletion' = del
          /\ requests' = [requests EXCEPT
                             !.deletes = [a \in ArtifactIds |->
                                            IF a \in here /\ del[a] = "pending"
                                            THEN @[a] + 1 ELSE @[a]]]
          /\ skippedArtifactsCounter' = f.counter
          /\ pipeline' = pl
          /\ pc' = IF pc = "join" /\ JoinSettled(pl, del) THEN "resolved" ELSE pc
    /\ UNCHANGED << devEnv, inputs, clock, failure, configs, taggedCommits, pages, hasNextPage >>

\* faulty variant: a rejected listing is swallowed the way a failed delete is
AfterListingFailureSwallowed(pcNow) == pcNow

\* how run() is left when an artifact listing rejects: nothing catches it, so
\* the first rejection rejects Promise.all
AfterListingFailure(pcNow) == IF pcNow = "join" THEN "rejected" ELSE pcNow

\* the artifact listing of run r rejects; the other pipelines go on
ArtifactsFailed(r) ==
    /\ pipeline[r] = "listing"
    /\ ~Cancelled(pc)
    /\ pipeline' = [pipeline EXCEPT ![r] = "failed"]
    /\ pc' = AfterListingFailure(pc)
    /\ failure' = IF pc' = "rejected" /\ pc # "rejected" THEN "artifacts" ELSE failure
    /\ UNCHANGED << devEnv, inputs, clock, configs, taggedCommits, pages, hasNextPage, artifacts,
                    decision, deletion, skippedArtifactsCounter, requests >>

\* what the delete promise of an artifact settles to: .then logs the
\* success, .catch logs the error and swallows it
DeleteOutcome(ok) == IF ok THEN "ok" ELSE "failed"

\* faulty variant: the delete promise has no catch, its rejection reaches the join
AfterDeleteFailureRejects(pcNow, pl, del) ==
    IF pcNow \in {"join", "resolved"} THEN "rejected" ELSE pcNow

\* faulty variant: a failed delete never settles its place in the join
AfterDeleteFailureHangs(pcNow, pl, del) == pcNow

\* how run() is left when a delete promise settles with a failure
AfterDeleteFailure(pcNow, pl, del) ==
    IF pcNow = "join" /\ JoinSettled(pl, del) THEN "resolved" ELSE pcNow

\* faulty variant: a failed delete is issued once more
DeleteRequestsAfterRetry(n, ok) == IF ok THEN n ELSE n + 1

\* the delete requests issued for an artifact once its promise has settled:
\* .then and .catch only log, neither issues a request
DeleteRequestsAfter(n, ok) == n

DeleteSettled(a, ok) ==
    /\ deletion[a] = "pending"
    /\ ~Cancelled(pc)
    /\ deletion' = [deletion EXCEPT ![a] = DeleteOutcome(ok)]
    /\ requests' = [requests EXCEPT !.deletes[a] = DeleteRequestsAfter(@, ok)]
    /\ pc' = IF ok
             THEN (IF pc = "join" /\ JoinSettled(pipeline, deletion') THEN "resolved" ELSE pc)
             ELSE AfterDeleteFailure(pc, pipeline, deletion')
    /\ failure' = IF pc' = "rejected" /\ pc # "rejected" THEN "delete" ELSE failure
    /\ UNCHANGED << devEnv, inputs, clock, configs, taggedCommits, pages, hasNextPage,
                    pipeline, artifacts, decision, skippedArtifactsCounter >>

\* a day passes while run() waits for a page of workflow runs
Tick ==
    /\ pc = "runs"
    /\ clock < Now0 + MaxTicks
    /\ clock' = clock + 1
    /\ UNCHANGED << devEnv, inputs, pc, failure, configs, taggedCommits, pages, hasNextPage, pipeline,
                    artifacts, decision, deletion, skippedArtifactsCounter, requests >>

Next ==
    \/ Start
    \/ \E tags \in SUBSET Commits : TagsListed(tags)
    \/ TagsFailed
    \/ pc = "runs" /\ \E page \in PageChoices : RunsPageMore(page)
    \/ pc = "runs" /\ \E page \in PageChoices, hasNext \in BOOLEAN : RunsPageLast(page, hasNext)
    \/ RunsFailed
    \/ \E r \in RunIds : pipeline[r] = "listing" /\
                           \E arts \in ArtifactChoices(r) : ArtifactsListed(r, arts)
    \/ \E r \in RunIds : ArtifactsFailed(r)
    \/ \E a \in ArtifactIds, ok \in BOOLEAN : DeleteSettled(a, ok)
    \/ Tick

Init == InitWith(AgeInputs, SkipTagsInputs, SkipRecentInputs)

Spec == Init /\ [][Next]_vars

\* a step of run() or of one of its callbacks (time passing is not one)
Progress ==
    \/ Start
    \/ \E tags \in SUBSET Commits : TagsListed(tags)
    \/ TagsFailed
    \/ pc = "runs" /\ \E page \in PageChoices : RunsPageMore(page)
    \/ pc = "runs" /\ \E page \in PageChoices, hasNext \in BOOLEAN : RunsPageLast(page, hasNext)
    \/ RunsFailed
    \/ \E r \in RunIds : pipeline[r] = "listing" /\
                           \E arts \in ArtifactChoices(r) : ArtifactsListed(r, arts)
    \/ \E r \in RunIds : ArtifactsFailed(r)
    \/ \E a \in ArtifactIds, ok \in BOOLEAN : DeleteSettled(a, ok)

\* every request settles and the event loop runs the callback of a settled
\* request: run() and its callbacks are not postponed for ever
\* over the inputs that decide how run() proceeds: the age readable or not,
\* skip-tags set or not, skip-recent empty, not a number, a number
InitFair ==
    InitWith({ Undefined, Str(<<"1", " ", "d", "a", "y", "s">>) },
             SkipTagsInputs,
             { Str(<<>>), Str(<<"x">>), Str(<<"1">>) })
SpecFair == InitFair /\ [][Next]_vars /\ WF_vars(Progress)

\* configuration resolution alone, over the wider inputs
InitConfig == InitWith(MoreAgeInputs, MoreSkipTagsInputs, MoreSkipRecentInputs)

SpecConfig == InitConfig /\ [][Start]_vars

\* ------------------------------------------------------------------ claims
\* every artifact some listing has returned, with the run it belongs to
ListedOf(r) == { artifacts[r][i] : i \in 1..Len(artifacts[r]) }
AllListed == UNION { ListedOf(r) : r \in RunIds }
DeleteRequested(a) == requests.deletes[a.id] > 0
ReachedAgeCheck(a) == decision[a.id] \in {"kept", "delete"}

\* C1: an artifact that reaches the age check gets a delete request only if
\* it was created strictly before the cutoff; one created at the cutoff or
\* later is kept and no delete request is ever issued for it
C1_StrictCutoff ==
    \A a \in AllListed :
        /\ DeleteRequested(a) => a.created_at < configs.maxAge
        /\ (ReachedAgeCheck(a) /\ a.created_at >= configs.maxAge) =>
              /\ decision[a.id] = "kept"
              /\ ~DeleteRequested(a)
              /\ deletion[a.id] = "none"

C1_Witness ==
    /\ pc = "resolved"
    /\ \E a, b \in AllListed :
          /\ a.created_at = configs.maxAge
          /\ decision[a.id] = "kept" /\ ~DeleteRequested(a)
          /\ b.created_at = configs.maxAge - 1
          /\ DeleteRequested(b)

\* C2: with skip-tags active, a run whose head commit is tagged never has its
\* artifacts listed and never has a delete request issued for any artifact
C2_TaggedRunsUntouched ==
    \A r \in 1..Len(workflowRuns) :
        (configs.skipTags = "true" /\ taggedCommits.def
           /\ workflowRuns[r].head_sha \in taggedCommits.set) =>
            /\ requests.artifacts[r] = 0
            /\ artifacts[r] = <<>>
            /\ \A i \in 1..MaxArtifacts : requests.deletes[ArtifactId(r, i)] = 0

C2_Witness ==
    /\ pc = "resolved"
    /\ configs.skipTags = "true"
    /\ \E r, q \in 1..Len(workflowRuns) :
          /\ workflowRuns[r].head_sha \in taggedCommits.set
          /\ ~isTooOld(workflowRuns[r], clock)
          /\ pipeline[r] = "skipped_tag"
          /\ pipeline[q] = "listed"
          /\ \E a \in ListedOf(q) : DeleteRequested(a)

\* C3: a run created before (now - 10 days) is left out whatever the age
\* threshold: its artifacts are never listed and no delete request is issued
\* for them, also when it came on the page that stopped the pagination
C3_TooOldRunsUntouched ==
    \A r \in 1..Len(workflowRuns) :
        workflowRuns[r].created_at < clock - TooOldDays =>
            /\ pipeline[r] \in {"absent", "skipped_old", "skipped_tag"}
            /\ pc \in {"join", "resolved"} => pipeline[r] # "absent"
            /\ requests.artifacts[r] = 0
            /\ artifacts[r] = <<>>
            /\ \A i \in 1..MaxArtifacts : requests.deletes[ArtifactId(r, i)] = 0

C3_Witness ==
    /\ pc = "resolved"
    /\ configs.skipTags # "true"
    /\ Len(pages) = 2
    /\ pipeline[2] = "skipped_old"
    /\ pipeline[1] = "listed"
    /\ \E a \in ListedOf(1) : DeleteRequested(a)

\* C4: a failed delete stays with its artifact: every artifact that passed
\* the filter of a listed run has its delete request whatever became of the
\* other deletes, and when nothing else failed the invocation completes
\* without reporting failure
C4_DeleteFailuresIsolated ==
    /\ \A r \in RunIds : \A a \in ListedOf(r) :
          (pipeline[r] = "listed" /\ decision[a.id] = "delete" /\ ~devEnv) =>
              requests.deletes[a.id] = 1
    /\ failure # "delete"
    /\ (pc \in {"join", "resolved", "rejected"} /\ failure = "none"
          /\ JoinSettled(pipeline, deletion)) => pc = "resolved"

C4_Witness ==
    /\ pc = "resolved"
    /\ failure = "none"
    /\ \E a \in ListedOf(1), b \in ListedOf(2) :
          /\ deletion[a.id] = "failed"
          /\ deletion[b.id] = "ok"

Skipped == { a \in ArtifactIds : decision[a] = "recent" }

\* the number of artifacts a skip-recent value exempts: the value rounded up,
\* nothing for zero, a negative value or NaN
RecentBudget(n) == IF n.nan \/ n.v <= 0 THEN 0 ELSE (n.v + 9) \div 10

\* C5: with skip-recent N > 0 the recent-count rule skips exactly N
\* artifacts over the whole invocation once N are listed, and never more,
\* in whatever order the listings of the runs arrive (a value with a
\* fraction counts as the next whole number)
C5_ExactlyNSkipped ==
    LET n == configs.skipRecent IN
    (configs.ok /\ ~n.nan /\ n.v > 0) =>
        /\ Cardinality(Skipped) = skippedArtifactsCounter
        /\ Cardinality(Skipped) = Min(RecentBudget(n), ListedArtifacts)
        /\ n.v % 10 = 0 =>
              /\ 10 * Cardinality(Skipped) <= n.v
              /\ 10 * ListedArtifacts >= n.v => 10 * Cardinality(Skipped) = n.v

C5_Witness ==
    /\ pc = "resolved"
    /\ configs.skipRecent = Num(10)
    /\ pipeline[1] = "listed" /\ pipeline[2] = "listed"
    /\ Len(artifacts[1]) = 1 /\ Len(artifacts[2]) = 1
    /\ decision[artifacts[2][1].id] = "recent"
    /\ decision[artifacts[1][1].id] = "delete"

\* C6: when a single run has been processed and its listing holds k
\* artifacts, the first min(N, k) in listing order are skipped whatever their
\* age, and each of the others goes through the age filter
C6_FirstNSkippedThenAge ==
    \A r \in RunIds :
        (pipeline[r] = "listed" /\ \A q \in RunIds \ {r} : pipeline[q] # "listed") =>
            LET k == Len(artifacts[r])
                m == Min(RecentBudget(configs.skipRecent), k)
            IN \A i \in 1..k :
                 LET a == artifacts[r][i] IN
                 /\ i <= m => decision[a.id] = "recent"
                 /\ i > m => /\ ReachedAgeCheck(a)
                             /\ decision[a.id] = "delete" <=> a.created_at < configs.maxAge

C6_Witness ==
    /\ pc = "resolved"
    /\ configs.skipRecent = Num(10)
    /\ \E r \in RunIds :
          /\ pipeline[r] = "listed" /\ \A q \in RunIds \ {r} : pipeline[q] # "listed"
          /\ Len(artifacts[r]) = 2
          /\ artifacts[r][1].created_at < configs.maxAge
          /\ decision[artifacts[r][1].id] = "recent"
          /\ artifacts[r][2].created_at < configs.maxAge
          /\ decision[artifacts[r][2].id] = "delete"

\* C7: with skip-tags off and skip-recent 0, the artifacts of a listed run
\* for which a delete request is issued are exactly those created strictly
\* before the cutoff, one request each; the others are kept
C7_DeletedExactlyTheOld ==
    (~devEnv /\ configs.ok /\ configs.skipTags # "true"
       /\ RecentBudget(configs.skipRecent) = 0) =>
        \A r \in RunIds : pipeline[r] = "listed" =>
            /\ { a \in ListedOf(r) : DeleteRequested(a) }
                 = { a \in ListedOf(r) : a.created_at < configs.maxAge }
            /\ \A a \in ListedOf(r) :
                  /\ requests.deletes[a.id] <= 1
                  /\ ~DeleteRequested(a) => decision[a.id] = "kept" /\ deletion[a.id] = "none"

C7_Witness ==
    /\ pc = "resolved"
    /\ ~devEnv /\ configs.skipTags # "true" /\ configs.skipRecent = Num(0)
    /\ Len(workflowRuns) = 1
    /\ Len(artifacts[1]) = 2
    /\ artifacts[1][1].created_at < configs.maxAge
    /\ deletion[artifacts[1][1].id] = "ok"
    /\ artifacts[1][2].created_at > configs.maxAge
    /\ decision[artifacts[1][2].id] = "kept"
    /\ ~DeleteRequested(artifacts[1][2])

\* the skip-recent values that are no number, and what Number() gives for the
\* others, in tenths
NotNumeric ==
    { <<"x">>, <<"-">>, <<".">>, <<"1", "x">>, <<"1", ".", "2", ".", "3">> }
ExpectedNumber ==
    { << <<>>, 0 >>, << <<" ">>, 0 >>, << <<"0">>, 0 >>, << <<"1">>, 10 >>,
      << <<"2">>, 20 >>, << <<"+", "1">>, 10 >>, << <<" ", "1">>, 10 >>,
      << <<"1", ".">>, 10 >>, << <<".", "5">>, 5 >>, << <<"1", ".", "5">>, 15 >>,
      << <<"-", "1">>, -10 >>, << <<"-", "1", ".", "5">>, -15 >> }

\* reading the required age throws: unset, or empty outside the dev environment
AgeThrows == ~inputs.AGE.def \/ (~devEnv /\ inputs.AGE.s = <<>>)

SkipRecentSupplied == inputs.SKIP_RECENT.def /\ inputs.SKIP_RECENT.s # <<>>

ParsesAsNonNegativeInteger(x) ==
    LET n == ToNumber(x) IN ~n.nan /\ n.v >= 0 /\ n.v % 10 = 0

\* C8 as stated: configuration resolution fails whenever a supplied
\* skip-recent value does not parse as a non-negative integer
C8_FailsUnlessNonNegativeInteger ==
    (pc # "start" /\ SkipRecentSupplied
       /\ ~ParsesAsNonNegativeInteger(inputs.SKIP_RECENT)) => failure = "config"

\* C8 (amended): configuration resolution fails on skip-recent exactly when a
\* supplied value does not parse as a number; a negative or fractional value
\* is accepted and kept as parsed; an empty or absent value leaves the
\* recent-count rule inactive (zero, or NaN for a variable unset in the dev
\* environment)
C8_FailsUnlessNumber ==
    (pc # "start" /\ ~AgeThrows) =>
        LET x == inputs.SKIP_RECENT IN
        /\ failure = "config" <=> (x.def /\ x.s \in NotNumeric)
        /\ (failure = "none" /\ x.def) =>
              \E e \in ExpectedNumber : e[1] = x.s /\ configs.skipRecent = Num(e[2])
        /\ (failure = "none" /\ ~x.def) =>
              configs.skipRecent = IF devEnv THEN NaN ELSE Num(0)
        /\ (failure = "none" /\ ~SkipRecentSupplied) =>
              \A n \in 0..MaxArtifacts : ~skipRecentArtifact(configs, n)

C8_Witness ==
    /\ pc \in {"tags", "runs"}
    /\ failure = "none"
    /\ inputs.SKIP_RECENT = Str(<<"-", "1">>)
    /\ configs.skipRecent = Num(-10)

NoRequests ==
    /\ requests.tags = 0
    /\ requests.runs = 0
    /\ \A r \in RunIds : requests.artifacts[r] = 0
    /\ \A a \in ArtifactIds : requests.deletes[a] = 0

C10_TagFailureAborts ==
    /\ (configs.skipTags = "true" /\ pc \notin {"start", "tags"} /\ ~taggedCommits.def) =>
          /\ pc = "rejected"
          /\ failure = "tags"
    /\ failure = "tags" =>
          /\ pc = "rejected"
          /\ configs.skipTags = "true"
          /\ requests.tags = 1
          /\ requests.runs = 0
          /\ pages = <<>>
          /\ \A r \in RunIds : requests.artifacts[r] = 0
          /\ \A a \in ArtifactIds : requests.deletes[a] = 0

C10_Witness ==
    /\ pc = "rejected"
    /\ failure = "tags"
    /\ requests.tags = 1
    /\ requests.runs = 0

\* C11: a failed artifact listing is not isolated: it rejects the join and
\* the invocation reports failure, as a failed listing of workflow runs
\* does; a failed delete alone never does
C11_ListingFailureIsFatal ==
    /\ (\E r \in RunIds : pipeline[r] = "failed") =>
          pc = "rejected" /\ failure = "artifacts"
    /\ failure = "artifacts" => \E r \in RunIds : pipeline[r] = "failed"
    /\ failure = "runs" =>
          /\ pc = "rejected"
          /\ requests.runs = Len(pages) + 1
          /\ \A r \in RunIds : pipeline[r] = "absent"
    /\ pc = "rejected" <=> failure \in {"config", "tags", "runs", "artifacts"}
    /\ (\E a \in ArtifactIds : deletion[a] = "failed")
          /\ (\A r \in RunIds : pipeline[r] # "failed") => failure = "none"

C11_Witness ==
    /\ pc = "rejected"
    /\ failure = "artifacts"
    /\ pipeline[1] = "listed"
    /\ pipeline[2] = "failed"
    /\ \E a \in ListedOf(1) : deletion[a.id] = "failed"

\* C12: in the dev environment no delete request is ever issued: every
\* artifact that passed the filter gets a no-op that is resolved at once, so
\* the join never waits for a delete and no failure comes from one
C12_DevIssuesNoDelete ==
    devEnv =>
        /\ \A a \in ArtifactIds :
              /\ requests.deletes[a] = 0
              /\ deletion[a] \in {"none", "noop"}
              /\ decision[a] = "delete" <=> deletion[a] = "noop"
        /\ pc = "join" => \E r \in RunIds : pipeline[r] = "listing"
        /\ failure \notin {"config", "tags", "runs"}
              /\ pc \notin {"start", "tags", "runs"}
              /\ (\A r \in RunIds : pipeline[r] \notin {"listing", "failed"}) =>
              pc = "resolved" /\ failure = "none"

C12_Witness ==
    /\ devEnv
    /\ pc = "resolved"
    /\ failure = "none"
    /\ \E a \in AllListed :
          /\ a.created_at < configs.maxAge
          /\ deletion[a.id] = "noop"
          /\ ~DeleteRequested(a)

\* the errors other than a failed delete, read off what was requested and
\* what came back
ConfigErrorOccurred == pc # "start" /\ ~configs.ok
TagsErrorOccurred == requests.tags > 0 /\ pc # "tags" /\ ~taggedCommits.def
RunsErrorOccurred == requests.runs > Len(pages) /\ pc # "runs"
ListingErrorOccurred == \E r \in RunIds : pipeline[r] = "failed"
ErrorOccurred ==
    ConfigErrorOccurred \/ TagsErrorOccurred \/ RunsErrorOccurred \/ ListingErrorOccurred
Completed == pc \in {"resolved", "rejected"}

\* C13: when every request settles the invocation completes, and it reports
\* failure exactly when an error other than a failed delete occurred
\* (configuration, tag listing, listing of runs, listing of artifacts)
C13_CompletesAndReports ==
    /\ <>Completed
    /\ [](Completed => (pc = "rejected" <=> ErrorOccurred))
    /\ [](Completed => (failure # "none" <=> ErrorOccurred))

C13_Witness ==
    /\ pc = "resolved"
    /\ failure = "none"
    /\ ~ErrorOccurred
    /\ \A r \in RunIds : pipeline[r] = "listed"
    /\ \E a, b \in ArtifactIds : deletion[a] = "failed" /\ deletion[b] = "ok"

PageHasTooOld(page, now) ==
    \E i \in 1..Len(page) : page[i].created_at < now - TooOldDays
PaginationOver == pc \in {"join", "resolved"} \/ (pc = "rejected" /\ failure = "artifacts")

\* C14: the enumeration of runs stops at the first page that holds a too old
\* run: that page and the earlier ones are kept in full and no later page is
\* requested; a page without a too old run is followed by a request for the
\* next page as long as there is one
C14_StopsAtFirstTooOldPage ==
    /\ [][Len(pages') = Len(pages) + 1 =>
            LET page == pages'[Len(pages')] IN
            /\ pages = SubSeq(pages', 1, Len(pages))
            /\ PageHasTooOld(page, clock) \/ ~hasNextPage' =>
                  pc' # "runs" /\ requests'.runs = requests.runs
            /\ ~PageHasTooOld(page, clock) /\ hasNextPage' =>
                  pc' = "runs" /\ requests'.runs = requests.runs + 1]_vars
    /\ [][Len(pages') # Len(pages) => pc = "runs" /\ Len(pages') = Len(pages) + 1]_vars
    /\ [](PaginationOver =>
            /\ requests.runs = Len(pages)
            /\ \A r \in RunIds : r <= Len(workflowRuns) <=> pipeline[r] # "absent")
    /\ [](pc = "runs" => requests.runs = Len(pages) + 1)

C14_Witness ==
    /\ pc = "resolved"
    /\ hasNextPage
    /\ Len(pages) = 1
    /\ requests.runs = 1
    /\ PageHasTooOld(pages[1], clock)
    /\ pipeline[1] = "skipped_old"

\* C15: the listing of every run kept is requested in the one step that
\* ends the enumeration, before anything is awaited, and the invocation
\* resolves only when every listing has returned and every delete issued
\* has settled: it never resolves while a delete is outstanding
C15_ResolvesAfterEverythingSettled ==
    /\ pc = "resolved" =>
          /\ \A r \in RunIds : pipeline[r] \notin {"listing", "failed"}
          /\ \A a \in ArtifactIds : deletion[a] # "pending"
    /\ \A r \in RunIds :
          requests.artifacts[r] =
              IF pipeline[r] \in {"listing", "listed", "failed"} THEN 1 ELSE 0
    /\ (\E r \in RunIds : pipeline[r] # "absent") => pc \in {"join", "resolved", "rejected"}

C15_Witness ==
    /\ pc = "resolved"
    /\ \A r \in RunIds : pipeline[r] = "listed" /\ requests.artifacts[r] = 1
    /\ \E a \in ListedOf(1), b \in ListedOf(2) :
          /\ deletion[a.id] = "ok" /\ requests.deletes[a.id] = 1
          /\ deletion[b.id] = "ok" /\ requests.deletes[b.id] = 1

\* a listing of run r that holds one artifact, created on day t
OneArtifact(r, t) == << [id |-> ArtifactId(r, 1), created_at |-> t] >>

\* C16: with skip-recent N > 0, which artifacts are skipped follows the order
\* in which the listings arrive, not the age of the artifacts: whichever
\* pending listing arrives next, its first artifact is skipped exactly when
\* the listings that arrived before it have not used up N, whatever day the
\* artifact was created
C16_SkippedSetFollowsArrival ==
    \A r \in RunIds :
        (/\ pipeline[r] = "listing"
         /\ RecentBudget(configs.skipRecent) > 0
         /\ ListedArtifacts < MaxArtifacts) =>
            \A t \in ArtifactTimes :
                ENABLED (/\ ArtifactsListed(r, OneArtifact(r, t))
                         /\ (decision'[ArtifactId(r, 1)] = "recent") =
                              (skippedArtifactsCounter < RecentBudget(configs.skipRecent)))

\* two runs processed, one artifact each, N = 1: the older artifact is the
\* one skipped and the newer one went through the age filter
C16_Witness ==
    /\ pc = "resolved"
    /\ configs.skipRecent = Num(10)
    /\ pipeline[1] = "listed" /\ pipeline[2] = "listed"
    /\ Len(artifacts[1]) = 1 /\ Len(artifacts[2]) = 1
    /\ decision[artifacts[1][1].id] = "recent"
    /\ ReachedAgeCheck(artifacts[2][1])
    /\ artifacts[1][1].created_at < artifacts[2][1].created_at

\* C17: when skip-tags is not set, the tag stage is skipped: no tag-listing
\* request is issued, the set of tagged commits stays absent, no run is
\* excluded by the tag rule and nothing fails on the absent set
C17_NoTagStageWhenInactive ==
    (pc # "start" /\ configs.skipTags # "true") =>
        /\ requests.tags = 0
        /\ pc # "tags"
        /\ ~taggedCommits.def
        /\ failure # "tags"
        /\ \A r \in RunIds : pipeline[r] # "skipped_tag"
        /\ (configs.ok /\ PaginationOver) =>
              \A r \in 1..Len(workflowRuns) :
                  pipeline[r] = "skipped_old" <=>
                      workflowRuns[r].created_at < clock - TooOldDays

C17_Witness ==
    /\ pc = "resolved"
    /\ configs.ok /\ configs.skipTags # "true"
    /\ requests.tags = 0
    /\ Len(workflowRuns) = 2
    /\ pipeline[1] = "listed" /\ pipeline[2] = "skipped_old"
    /\ \E a \in ListedOf(1) : DeleteRequested(a)

\* C18: at most one delete request is issued per artifact in an invocation:
\* requests are issued only when the listing that holds the artifact
\* arrives, and none once a delete was attempted, failed or not
C18_AtMostOneDeletePerArtifact ==
    /\ [](\A a \in ArtifactIds :
            /\ requests.deletes[a] <= 1
            /\ deletion[a] \in {"pending", "ok", "failed"} => requests.deletes[a] = 1)
    /\ [][\A a \in ArtifactIds :
            requests'.deletes[a] # requests.deletes[a] =>
                /\ deletion[a] = "none"
                /\ requests.deletes[a] = 0
                /\ \E r \in RunIds : pipeline[r] = "listing" /\ pipeline'[r] = "listed"
                                       /\ \E i \in 1..Len(artifacts'[r]) :
                                             artifacts'[r][i].id = a]_vars

C18_Witness ==
    /\ pc = "resolved"
    /\ pipeline[1] = "listed" /\ pipeline[2] = "listed"
    /\ \E a \in ListedOf(1), b \in ListedOf(2) :
          /\ deletion[a.id] = "failed" /\ requests.deletes[a.id] = 1
          /\ deletion[b.id] = "failed" /\ requests.deletes[b.id] = 1

\* what the data alone says: the runs that are neither on a tagged commit
\* (with skip-tags set) nor too old, and their artifacts older than the cutoff
Processed(r) ==
    /\ ~(configs.skipTags = "true" /\ workflowRuns[r].head_sha \in taggedCommits.set)
    /\ ~(workflowRuns[r].created_at < clock - TooOldDays)
ExpectedDeletes ==
    { a.id : a \in { b \in UNION { ListedOf(r) : r \in { q \in 1..Len(workflowRuns)
                                                               : Processed(q) } }
                       : b.created_at < configs.maxAge } }
RequestedDeletes == { a \in ArtifactIds : requests.deletes[a] > 0 }

\* C19: with skip-recent 0 and no listing failed, the artifacts for which a
\* delete request was issued are a function of the runs listed, their
\* artifacts, the tagged commits and the cutoff: whatever the order of the
\* responses, a resolved invocation requested exactly those
C19_DeletedSetIsOrderIndependent ==
    (configs.ok /\ RecentBudget(configs.skipRecent) = 0 /\ PaginationOver) =>
        /\ pc = "resolved" =>
              /\ \A r \in 1..Len(workflowRuns) : Processed(r) <=> pipeline[r] = "listed"
              /\ RequestedDeletes = IF devEnv THEN {} ELSE ExpectedDeletes
        /\ RequestedDeletes \subseteq ExpectedDeletes
        /\ \A r \in 1..Len(workflowRuns) :
              (~devEnv /\ pipeline[r] = "listed") =>
                  \A a \in ListedOf(r) : DeleteRequested(a) <=> a.id \in ExpectedDeletes

C19_Witness ==
    /\ pc = "resolved"
    /\ ~devEnv
    /\ RecentBudget(configs.skipRecent) = 0
    /\ configs.skipTags = "true" /\ taggedCommits.def
    /\ pipeline[1] = "listed" /\ pipeline[2] = "listed"
    /\ Cardinality(RequestedDeletes) = 2
    /\ RequestedDeletes = ExpectedDeletes
    /\ \E a \in ListedOf(1), b \in ListedOf(2) : DeleteRequested(a) /\ DeleteRequested(b)

\* C20: a failed artifact listing cancels nothing: once the invocation has
\* reported that failure, a listing of another run that is still pending can
\* arrive and have the delete request of an old artifact issued, and a
\* delete that is pending can succeed, the invocation staying failed
C20_FailureCancelsNothing ==
    (pc = "rejected" /\ failure = "artifacts" /\ ~devEnv) =>
        /\ \A r \in RunIds :
              (/\ pipeline[r] = "listing"
               /\ ListedArtifacts < MaxArtifacts
               /\ skippedArtifactsCounter >= RecentBudget(configs.skipRecent)) =>
                  \A t \in ArtifactTimes :
                      t < configs.maxAge =>
                          ENABLED (/\ ArtifactsListed(r, OneArtifact(r, t))
                                   /\ requests'.deletes[ArtifactId(r, 1)] = 1
                                   /\ deletion'[ArtifactId(r, 1)] = "pending"
                                   /\ pc' = "rejected")
        /\ \A a \in ArtifactIds :
              deletion[a] = "pending" =>
                  ENABLED (DeleteSettled(a, TRUE) /\ deletion'[a] = "ok" /\ pc' = "rejected")

C20_Witness ==
    /\ pc = "rejected"
    /\ failure = "artifacts"
    /\ pipeline[1] = "failed"
    /\ pipeline[2] = "listed"
    /\ \E a \in ListedOf(2) : deletion[a.id] = "ok" /\ requests.deletes[a.id] = 1

====
